---- MODULE Spec2Model ----
(***************************************************************************)
(* Model of the chonker95 terminal editor (src/src/main.rs): the token     *)
(* store of the current page, the spatial content grid built from it, the  *)
(* viewport window rendered into the text buffer, and the key handlers     *)
(* that scroll, change page and edit the text buffer.                      *)
(*                                                                         *)
(* Representation choices.                                                 *)
(*  - A character is a one-character string.  "a" and "b" stand for        *)
(*    ordinary single-column characters, "W" for a double-width character  *)
(*    (CJK, emoji), "z" for a zero-width character (a combining mark),     *)
(*    ZWSP for U+200B, which render_spatial_grid writes as the             *)
(*    continuation marker, " " for the space and "\n" for the newline.     *)
(*  - A String is the sequence of its characters.                          *)
(*  - f32 coordinates are integers in PDF units; (d * 0.15) as usize is    *)
(*    the integer floor of d * 15 / 100.                                   *)
(*  - content_grid (Vec<Vec<char>>) is the record [rows, cols, cells]:     *)
(*    rows and cols are the lengths of the two Vec levels, cells maps the  *)
(*    <<row, col>> pairs that hold a non-space character to that           *)
(*    character; every other cell inside rows x cols holds ' '.            *)
(*  - A panic ends the process; panicked names it and disables every       *)
(*    action.  overflow_checks tells a build that panics on integer        *)
(*    overflow (debug profile) from one that wraps (release profile).      *)
(***************************************************************************)
EXTENDS Integers, Sequences, FiniteSets

VARIABLES
    doc,                \* the PDF: a sequence of pages, each a sequence of tokens
    elements,           \* WysiwygEditor.elements
    current_page,       \* WysiwygEditor.current_page (u32)
    terminal_width,     \* WysiwygEditor.terminal_width (u16)
    terminal_height,    \* WysiwygEditor.terminal_height (u16)
    text_buffer,        \* WysiwygEditor.text_buffer
    cursor_x,           \* WysiwygEditor.cursor_x (u16)
    cursor_y,           \* WysiwygEditor.cursor_y (u16)
    is_all_selected,    \* WysiwygEditor.is_all_selected
    clipboard,          \* WysiwygEditor.clipboard
    viewport_offset_x,  \* WysiwygEditor.viewport_offset_x
    viewport_offset_y,  \* WysiwygEditor.viewport_offset_y
    content_grid,       \* WysiwygEditor.content_grid
    grid_width,         \* WysiwygEditor.grid_width
    grid_height,        \* WysiwygEditor.grid_height
    target_macos,       \* cfg!(target_os = "macos") of the build
    overflow_checks,    \* the build panics on integer overflow
    panicked,           \* "none", or the panic that ended the process
    edits,              \* number of edits made to text_buffer since the page load
    block,              \* the Block handed to the classifier: a sequence of Lines
    classification,     \* what classify returned for it, "none" before the call
    term_mode,          \* the terminal: "normal", "raw_only", "editor", "restored", ...
    session,            \* last_session.json: "unsaved", "saved" or "save_failed"
    key,                \* the cursor or clipboard arm handled since the last render
    pc                  \* position of the session

vars == <<doc, elements, current_page, terminal_width, terminal_height,
          text_buffer, cursor_x, cursor_y, is_all_selected, clipboard,
          viewport_offset_x, viewport_offset_y, content_grid, grid_width,
          grid_height, target_macos, overflow_checks, panicked, edits, block,
          classification, term_mode, session, key, pc>>

----------------------------------------------------------------------------
(* Bounds of the model *)

\* largest number of tokens on one page
MaxTokens == 2
\* length of the long token
LongLen == 51
\* largest page number reached with Ctrl+Right
MaxPages == 2
\* largest cursor coordinate reached by clicks and cursor keys
MaxCursor == 1
\* largest number of edits of the text buffer in a session
MaxEdits == 1
\* the scroll keys are followed while the offsets are below these
MaxScrollX == 20
MaxScrollY == 90
\* size of the grids of the grid/text bridge
BridgeRows == 2
BridgeCols == 2

----------------------------------------------------------------------------
(* Program constants *)

\* scale_factor = 0.15 = ScaleNum / ScaleDen
ScaleNum == 15
ScaleDen == 100
\* additive padding and minimum size of the grid
PadCols == 50
MinCols == 300
PadRows == 20
MinRows == 100
\* caps of the viewport window, and the rows reserved for the status line
ViewportMaxCols == 120
ViewportMaxRows == 50
StatusRows == 2
\* scroll steps and the margins kept by the scroll limits
ScrollStep == 10
ScrollMarginCols == 50
ScrollMarginRows == 20
\* number of values of a u16
U16Range == 65536

----------------------------------------------------------------------------
(* Characters and strings *)

ZWSP == "~"
WideChars == {"W"}
ZeroWidthChars == {"z", ZWSP}
\* char::is_whitespace, as used by trim_end
Whitespace == {" ", "\n"}

\* ch.width().unwrap_or(1)
CharWidth(ch) ==
    IF ch \in WideChars THEN 2
    ELSE IF ch \in ZeroWidthChars THEN 0
    ELSE 1

Min2(a, b) == IF a <= b THEN a ELSE b
Max2(a, b) == IF a >= b THEN a ELSE b
MinOf(S) == CHOOSE m \in S : \A v \in S : m <= v
MaxOf(S) == CHOOSE m \in S : \A v \in S : v <= m

\* str::trim_end
TrimEnd(s) ==
    LET keep == {i \in DOMAIN s : s[i] \notin Whitespace}
    IN  IF keep = {} THEN <<>> ELSE SubSeq(s, 1, MaxOf(keep))

\* str::lines: the pieces between the "\n" characters; a final empty piece
\* is not a line
Lines(s) ==
    LET nl == {i \in DOMAIN s : s[i] = "\n"}
        starts == {1} \cup {i + 1 : i \in nl}
        nth(k) == CHOOSE p \in starts : Cardinality({q \in starts : q < p}) = k - 1
        stop(p) == MinOf({i \in nl : i >= p} \cup {Len(s) + 1})
        parts == [k \in 1..Cardinality(starts) |-> SubSeq(s, nth(k), stop(nth(k)) - 1)]
    IN  IF parts[Len(parts)] = <<>> THEN SubSeq(parts, 1, Len(parts) - 1)
        ELSE SubSeq(parts, 1, Len(parts))

\* [String]::join("\n")
RECURSIVE JoinLines(_)
JoinLines(ls) ==
    IF Len(ls) = 0 THEN <<>>
    ELSE IF Len(ls) = 1 THEN ls[1]
    ELSE ls[1] \o <<"\n">> \o JoinLines(Tail(ls))

----------------------------------------------------------------------------
(* Tokens *)

\* AltoElement::new (id, screen_x and screen_y are never read)
Tok(content, hpos, vpos, width, height) ==
    [content |-> content, hpos |-> hpos, vpos |-> vpos,
     width |-> width, height |-> height]

Long == [i \in 1..LongLen |-> "a"]

\* the tokens a page is made of: colliding tokens, a double-width and a
\* zero-width character, negative and far positions, and a long word
TokenSet ==
    { Tok(<<"a">>, 0, 0, 30, 12),
      Tok(<<"b">>, 0, 0, 30, 12),
      Tok(<<"W", "b">>, 0, 0, 30, 12),
      Tok(<<"a">>, 7, 0, 30, 12),
      Tok(<<"a", "z", "b">>, -7, 700, 30, 12),
      Tok(<<"b">>, 4000, -7, 0, 0),
      Tok(Long, 4000, 0, 0, 0) }

RECURSIVE SeqsUpTo(_, _)
SeqsUpTo(S, n) ==
    IF n = 0 THEN {<<>>}
    ELSE LET shorter == SeqsUpTo(S, n - 1)
         IN  shorter \cup {Append(s, t) : s \in {q \in shorter : Len(q) = n - 1}, t \in S}

\* the words CITY (160.8, 84.8, 26.4 x 10.6) and CASH (189.8, 84.8,
\* 29.3 x 10.6) of a title line, coordinates rounded to whole units; the
\* exact distance 29.0 and the rounded one scale to the same 4 cells
P_title ==
    << Tok(<<"C", "I", "T", "Y">>, 161, 85, 26, 11),
       Tok(<<"C", "A", "S", "H">>, 190, 85, 29, 11) >>

\* a page whose first row has two words with a gap, indented by a word on a
\* lower row that starts further left
P_gap ==
    << Tok(<<"a", "z", "b">>, -7, 700, 30, 12),
       Tok(<<"a">>, 7, 0, 30, 12),
       Tok(<<"b">>, 40, 0, 30, 12) >>

\* what extract_alto_elements can return for one page
PageSet == SeqsUpTo(TokenSet, MaxTokens) \cup {P_title, P_gap}

----------------------------------------------------------------------------
(* render_spatial_grid *)

\* (v * scale_factor) as usize, a saturating cast: negative values give 0
ScaleToCells(v) == IF v <= 0 THEN 0 ELSE (v * ScaleNum) \div ScaleDen

\* min_x, max_x, min_y, max_y of a non-empty token list
ContentBounds(els) ==
    [min_x |-> MinOf({els[i].hpos : i \in DOMAIN els}),
     max_x |-> MaxOf({els[i].hpos + els[i].width : i \in DOMAIN els}),
     min_y |-> MinOf({els[i].vpos : i \in DOMAIN els}),
     max_y |-> MaxOf({els[i].vpos + els[i].height : i \in DOMAIN els})]

GridWidthFor(els) ==
    LET b == ContentBounds(els)
        content_width == Max2(b.max_x - b.min_x, 1)
    IN  Max2(ScaleToCells(content_width) + PadCols, MinCols)

GridHeightFor(els) ==
    LET b == ContentBounds(els)
        content_height == Max2(b.max_y - b.min_y, 1)
    IN  Max2(ScaleToCells(content_height) + PadRows, MinRows)

\* vec![vec![' '; w]; h]
NoCells == [c \in {} |-> " "]
BlankGrid(h, w) == [rows |-> h, cols |-> w, cells |-> NoCells]

\* content_grid[y][x], for an index inside the Vecs
CellAt(g, y, x) == IF <<y, x>> \in DOMAIN g.cells THEN g.cells[<<y, x>>] ELSE " "
\* whether content_grid[y][x] is an index inside the Vecs
InVecs(g, y, x) == y >= 0 /\ y < g.rows /\ x >= 0 /\ x < g.cols

\* content_grid[y][x] = ch
SetCell(g, y, x, ch) ==
    LET keys == IF ch = " " THEN DOMAIN g.cells \ {<<y, x>>}
                ELSE DOMAIN g.cells \cup {<<y, x>>}
    IN  [g EXCEPT !.cells =
            [c \in keys |-> IF c = <<y, x>> THEN ch ELSE g.cells[c]]]

\* One iteration of the character loop.  st = [grid, x, stop, fault]: the
\* grid so far, current_x, whether the loop has hit its break, and whether
\* an index outside the Vecs was used (index out of bounds panic).
PlaceCharUnchecked(st, ch, grid_y, gw, gh) ==
    LET char_width == CharWidth(ch)
        final_y == Min2(grid_y, gh - 1)
    IN  IF ~InVecs(st.grid, final_y, st.x) THEN [st EXCEPT !.fault = TRUE]
        ELSE IF CellAt(st.grid, final_y, st.x) = " "
        THEN LET g1 == SetCell(st.grid, final_y, st.x, ch)
             IN  IF char_width = 2
                 THEN IF ~InVecs(g1, final_y, st.x + 1)
                      THEN [st EXCEPT !.grid = g1, !.fault = TRUE]
                      ELSE [st EXCEPT !.grid = SetCell(g1, final_y, st.x + 1, ZWSP),
                                      !.x = st.x + char_width]
                 ELSE [st EXCEPT !.grid = g1, !.x = st.x + char_width]
        ELSE [st EXCEPT !.x = st.x + char_width]

PlaceChar(st, ch, grid_y, gw, gh) ==
    LET char_width == CharWidth(ch)
        final_y == Min2(grid_y, gh - 1)
    IN  IF st.x + char_width > gw THEN [st EXCEPT !.stop = TRUE]
        ELSE IF st.x < gw /\ final_y < gh
        THEN IF ~InVecs(st.grid, final_y, st.x) THEN [st EXCEPT !.fault = TRUE]
             ELSE IF CellAt(st.grid, final_y, st.x) = " "
             THEN LET g1 == SetCell(st.grid, final_y, st.x, ch)
                  IN  IF char_width = 2 /\ st.x + 1 < gw
                      THEN IF ~InVecs(g1, final_y, st.x + 1)
                           THEN [st EXCEPT !.grid = g1, !.fault = TRUE]
                           ELSE [st EXCEPT !.grid = SetCell(g1, final_y, st.x + 1, ZWSP),
                                           !.x = st.x + char_width]
                      ELSE [st EXCEPT !.grid = g1, !.x = st.x + char_width]
             ELSE [st EXCEPT !.x = st.x + char_width]
        ELSE [st EXCEPT !.x = st.x + char_width]

\* for ch in element.content.chars() { ... }, characters lo..hi of the
\* content in order: the loop ends at the end of the content, at the break,
\* or at a panic.  The range is halved to keep the evaluation shallow.
RECURSIVE PlaceChars(_, _, _, _, _, _, _)
PlaceChars(st, content, lo, hi, grid_y, gw, gh) ==
    IF lo > hi THEN st
    ELSE IF lo = hi THEN PlaceChar(st, content[lo], grid_y, gw, gh)
    ELSE LET mid == (lo + hi) \div 2
             st1 == PlaceChars(st, content, lo, mid, grid_y, gw, gh)
         IN  IF st1.stop \/ st1.fault THEN st1
             ELSE PlaceChars(st1, content, mid + 1, hi, grid_y, gw, gh)

\* the column taken from the absolute coordinate
StartColAbsolute(e, b) == ScaleToCells(e.hpos)

\* column and row of an element's first character
StartCol(e, b) == ScaleToCells(e.hpos - b.min_x)
StartRow(e, b) == ScaleToCells(e.vpos - b.min_y)

\* the body of "for element in &self.elements": r = [grid, fault]
PlaceElement(r, e, b, gw, gh) ==
    LET st == PlaceChars([grid |-> r.grid, x |-> StartCol(e, b),
                          stop |-> FALSE, fault |-> r.fault],
                         e.content, 1, Len(e.content), StartRow(e, b), gw, gh)
    IN  [grid |-> st.grid, fault |-> st.fault]

RECURSIVE PlaceElements(_, _, _, _, _, _)
PlaceElements(r, els, i, b, gw, gh) ==
    IF i > Len(els) THEN r
    ELSE PlaceElements(PlaceElement(r, els[i], b, gw, gh), els, i + 1, b, gw, gh)

\* the grid part of render_spatial_grid for a non-empty token list:
\* [grid_width, grid_height, content_grid, fault]
BuildGrid(els) ==
    LET gw == GridWidthFor(els)
        gh == GridHeightFor(els)
        r  == PlaceElements([grid |-> BlankGrid(gh, gw), fault |-> FALSE],
                            els, 1, ContentBounds(els), gw, gh)
    IN  [grid_width |-> gw, grid_height |-> gh,
         content_grid |-> r.grid, fault |-> r.fault]

----------------------------------------------------------------------------
(* get_viewport_text *)

\* (self.terminal_height as usize - 2).min(50): [n, panic].  With
\* terminal_height < 2 the subtraction overflows: it panics where overflow is
\* checked and wraps to 2^64 + terminal_height - 2 (> 50) where it is not.
ViewportHeight(th, checks) ==
    IF th >= StatusRows
    THEN [n |-> Min2(th - StatusRows, ViewportMaxRows), panic |-> "none"]
    ELSE IF checks
    THEN [n |-> 0, panic |-> "attempt to subtract with overflow"]
    ELSE [n |-> ViewportMaxRows, panic |-> "none"]

\* (self.terminal_width as usize).min(120)
ViewportWidth(tw) == Min2(tw, ViewportMaxCols)

\* One iteration of "for screen_y in 0..viewport_height": [out, fault], the
\* text pushed to result and whether an index outside the Vecs was read.
ViewportRowNoRowCheck(g, gw, gh, grid_y, ox, vw) ==
    LET line == [sx \in 1..vw |->
                    IF (sx - 1) + ox < gw THEN CellAt(g, grid_y, (sx - 1) + ox)
                    ELSE " "]
    IN  [out |-> TrimEnd(line) \o <<"\n">>,
         fault |-> \E sx \in 0..(vw - 1) :
                       sx + ox < gw /\ ~InVecs(g, grid_y, sx + ox)]

\* str::trim
Trim(s) ==
    LET keep == {i \in DOMAIN s : s[i] \notin Whitespace}
    IN  IF keep = {} THEN <<>> ELSE SubSeq(s, MinOf(keep), MaxOf(keep))

\* the row with line.trim() in place of line.trim_end()
ViewportRowTrimBoth(g, gw, gh, grid_y, ox, vw) ==
    IF grid_y < gh
    THEN LET line == [sx \in 1..vw |->
                         IF (sx - 1) + ox < gw THEN CellAt(g, grid_y, (sx - 1) + ox)
                         ELSE " "]
         IN  [out |-> Trim(line) \o <<"\n">>,
              fault |-> \E sx \in 0..(vw - 1) :
                            sx + ox < gw /\ ~InVecs(g, grid_y, sx + ox)]
    ELSE [out |-> <<"\n">>, fault |-> FALSE]

ViewportRow(g, gw, gh, grid_y, ox, vw) ==
    IF grid_y < gh
    THEN LET line == [sx \in 1..vw |->
                         IF (sx - 1) + ox < gw THEN CellAt(g, grid_y, (sx - 1) + ox)
                         ELSE " "]
         IN  [out |-> TrimEnd(line) \o <<"\n">>,
              fault |-> \E sx \in 0..(vw - 1) :
                            sx + ox < gw /\ ~InVecs(g, grid_y, sx + ox)]
    ELSE [out |-> <<"\n">>, fault |-> FALSE]

\* "for screen_y in 0..viewport_height", iterations lo..hi in order; the
\* range is halved to keep the evaluation shallow
RECURSIVE ViewportRows(_, _, _, _, _, _, _, _)
ViewportRows(g, gw, gh, ox, oy, vw, lo, hi) ==
    IF lo > hi THEN [out |-> <<>>, fault |-> FALSE]
    ELSE IF lo = hi THEN ViewportRow(g, gw, gh, lo + oy, ox, vw)
    ELSE LET mid == (lo + hi) \div 2
             a == ViewportRows(g, gw, gh, ox, oy, vw, lo, mid)
             b == ViewportRows(g, gw, gh, ox, oy, vw, mid + 1, hi)
         IN  [out |-> a.out \o b.out, fault |-> a.fault \/ b.fault]

\* get_viewport_text: [text, panic]
GetViewportText(g, gw, gh, ox, oy, tw, th, checks) ==
    LET vh == ViewportHeight(th, checks)
    IN  IF vh.panic # "none" THEN [text |-> <<>>, panic |-> vh.panic]
        ELSE LET r == ViewportRows(g, gw, gh, ox, oy, ViewportWidth(tw), 0, vh.n - 1)
             IN  IF r.fault THEN [text |-> <<>>, panic |-> "index out of bounds (get_viewport_text)"]
                 ELSE [text |-> TrimEnd(r.out), panic |-> "none"]

----------------------------------------------------------------------------
(* rebuild_text_buffer and load_page *)

\* rebuild_text_buffer, with render_spatial_grid inlined.  The grid fields
\* are assigned before get_viewport_text runs, text_buffer after it returns.
RebuildTextBuffer(els) ==
    IF els = <<>>
    THEN /\ text_buffer' = <<>>
         /\ UNCHANGED <<content_grid, grid_width, grid_height, panicked>>
    ELSE LET b == BuildGrid(els)
             v == GetViewportText(b.content_grid, b.grid_width, b.grid_height,
                                  viewport_offset_x, viewport_offset_y,
                                  terminal_width, terminal_height, overflow_checks)
         IN  /\ grid_width' = b.grid_width
             /\ grid_height' = b.grid_height
             /\ content_grid' = b.content_grid
             /\ IF b.fault
                THEN panicked' = "index out of bounds (render_spatial_grid)" /\ UNCHANGED text_buffer
                ELSE IF v.panic # "none"
                THEN panicked' = v.panic /\ UNCHANGED text_buffer
                ELSE panicked' = "none" /\ text_buffer' = v.text

\* extract_alto_elements: [elements, panic].  page_index is
\* (current_page - 1) as u16; with current_page = 0 the u32 subtraction
\* overflows and, unchecked, wraps to an index past every page.  A page
\* index past the end gives no elements.
ExtractAltoElements(d, page, checks) ==
    IF page = 0
    THEN IF checks
         THEN [elements |-> <<>>, panic |-> "attempt to subtract with overflow"]
         ELSE [elements |-> <<>>, panic |-> "none"]
    ELSE LET page_index == (page - 1) % U16Range
         IN  IF page_index >= Len(d) THEN [elements |-> <<>>, panic |-> "none"]
             ELSE [elements |-> d[page_index + 1], panic |-> "none"]

\* load_page for page number `page`: sets elements, the grid fields,
\* text_buffer and panicked
LoadPage(page) ==
    LET x == ExtractAltoElements(doc, page, overflow_checks)
    IN  IF x.panic # "none"
        THEN /\ panicked' = x.panic
             /\ UNCHANGED <<elements, text_buffer, content_grid, grid_width,
                            grid_height>>
        ELSE /\ elements' = x.elements
             /\ RebuildTextBuffer(x.elements)

----------------------------------------------------------------------------
(* SpecGrid: the grid rebuild and the viewport extraction as functions of   *)
(* their inputs.  The editor is as constructed by WysiwygEditor::new before *)
(* load_page, with the scroll offsets and the terminal size drawn from      *)
(* bounded sets; load_page receives any page of PageSet.                    *)

GridTermSizes == {<<5, 4>>, <<130, 5>>, <<4, 60>>, <<3, 1>>}
GridOffsets == {<<0, 0>>, <<600, 0>>, <<295, 98>>, <<700, 200>>}

InitGrid ==
    /\ doc = <<>>
    /\ elements = <<>>
    /\ current_page = 1
    /\ \E t \in GridTermSizes : terminal_width = t[1] /\ terminal_height = t[2]
    /\ text_buffer = <<>>
    /\ cursor_x = 0
    /\ cursor_y = 0
    /\ is_all_selected = FALSE
    /\ clipboard = <<>>
    /\ \E o \in GridOffsets : viewport_offset_x = o[1] /\ viewport_offset_y = o[2]
    /\ content_grid = BlankGrid(0, 0)
    /\ grid_width = 0
    /\ grid_height = 0
    /\ target_macos = FALSE
    /\ overflow_checks \in BOOLEAN
    /\ panicked = "none"
    /\ edits = 0
    /\ pc = "new"
    /\ block = <<>>
    /\ classification = "none"
    /\ term_mode = "editor"
    /\ session = "unsaved"
    /\ key = "none"

\* load_page with the extraction returning page p
GridLoad ==
    /\ pc = "new"
    /\ panicked = "none"
    /\ \E p \in PageSet :
          /\ elements' = p
          /\ RebuildTextBuffer(p)
    /\ pc' = "built"
    /\ UNCHANGED <<doc, current_page, terminal_width, terminal_height, cursor_x,
                   cursor_y, is_all_selected, clipboard, viewport_offset_x,
                   viewport_offset_y, target_macos, overflow_checks, edits>>
    /\ UNCHANGED <<block, classification, term_mode, session, key>>

\* text_buffer = get_viewport_text() on the editor as it stands
GridViewport ==
    /\ pc \in {"new", "built"}
    /\ panicked = "none"
    /\ LET v == GetViewportText(content_grid, grid_width, grid_height,
                                viewport_offset_x, viewport_offset_y,
                                terminal_width, terminal_height, overflow_checks)
       IN  IF v.panic # "none"
           THEN panicked' = v.panic /\ UNCHANGED text_buffer
           ELSE panicked' = "none" /\ text_buffer' = v.text
    /\ pc' = IF pc = "new" THEN "new_viewed" ELSE "built_viewed"
    /\ UNCHANGED <<doc, elements, current_page, terminal_width, terminal_height,
                   cursor_x, cursor_y, is_all_selected, clipboard,
                   viewport_offset_x, viewport_offset_y, content_grid, grid_width,
                   grid_height, target_macos, overflow_checks, edits>>
    /\ UNCHANGED <<block, classification, term_mode, session, key>>

NextGrid == GridLoad \/ GridViewport

SpecGrid == InitGrid /\ [][NextGrid]_vars

----------------------------------------------------------------------------
(* Editing the text buffer.  A byte offset into a line is represented by   *)
(* the number of characters before it.                                     *)

Spaces(n) == [i \in 1..n |-> " "]
EmptyLines(n) == [i \in 1..n |-> <<>>]

\* while lines.len() <= cursor_y { lines.push(String::new()) }
PadLines(lines, cy) ==
    IF Len(lines) <= cy THEN lines \o EmptyLines(cy + 1 - Len(lines)) ELSE lines

\* while current_line.chars().count() < cursor_x { current_line.push(' ') }
PadLine(line, cx) ==
    IF Len(line) < cx THEN line \o Spaces(cx - Len(line)) ELSE line

\* the loop over current_line.char_indices() of insert_char_at_cursor,
\* entered with char_count = i and byte_pos = 0: [char_count, byte_pos]
RECURSIVE CursorScan(_, _, _)
CursorScan(line, i, cx) ==
    IF i >= Len(line) THEN [char_count |-> i, byte_pos |-> 0]
    ELSE IF i >= cx THEN [char_count |-> i, byte_pos |-> i]
    ELSE CursorScan(line, i + 1, cx)

\* safe_cursor_pos of insert_char_at_cursor
SafeCursorPos(line, cx) ==
    LET r == CursorScan(line, 0, cx)
    IN  IF r.char_count < cx THEN Len(line) ELSE r.byte_pos

\* Vec::insert / String::insert at position pos (0-based)
InsertAt(seq, pos, v) ==
    SubSeq(seq, 1, pos) \o <<v>> \o SubSeq(seq, pos + 1, Len(seq))

\* insert_char_at_cursor: [text, cursor_x, cursor_y]
InsertCharAtCursor(text, cx, cy, c) ==
    LET lines == PadLines(Lines(text), cy)
        current_line == PadLine(lines[cy + 1], cx)
        safe_cursor_pos == SafeCursorPos(current_line, cx)
    IN  IF c = "\n"
        THEN LET remaining == IF safe_cursor_pos < Len(current_line)
                              THEN SubSeq(current_line, safe_cursor_pos + 1,
                                          Len(current_line))
                              ELSE <<>>
                 kept == IF safe_cursor_pos < Len(current_line)
                         THEN SubSeq(current_line, 1, safe_cursor_pos)
                         ELSE current_line
                 lines2 == InsertAt([lines EXCEPT ![cy + 1] = kept], cy + 1, remaining)
             IN  [text |-> JoinLines(lines2), cursor_x |-> 0, cursor_y |-> cy + 1]
        ELSE LET insert_pos == Min2(safe_cursor_pos, Len(current_line))
                 lines2 == [lines EXCEPT ![cy + 1] = InsertAt(current_line, insert_pos, c)]
             IN  [text |-> JoinLines(lines2), cursor_x |-> cx + 1, cursor_y |-> cy]

\* delete_char_at_cursor: [text, cursor_x]
DeleteCharAtCursor(text, cx, cy) ==
    IF cx > 0
    THEN LET lines == Lines(text)
             edited(i) ==
                 IF i - 1 = cy
                 THEN LET line_chars == lines[i]
                          cursor_pos == Min2(cx - 1, Len(line_chars))
                      IN  IF cursor_pos < Len(line_chars)
                          THEN SubSeq(line_chars, 1, cursor_pos)
                                   \o SubSeq(line_chars, cursor_pos + 2, Len(line_chars))
                          ELSE line_chars
                 ELSE lines[i]
         IN  [text |-> JoinLines([i \in 1..Len(lines) |-> edited(i)]),
              cursor_x |-> IF cy < Len(lines) THEN cx - 1 ELSE cx]
    ELSE [text |-> text, cursor_x |-> cx]

----------------------------------------------------------------------------
(* handle_key_input *)

Modifiers == {"CONTROL", "ALT", "SUPER"}
ModSets == SUBSET Modifiers

\* is_mac_modifier
IsMacModifier(mods) ==
    IF target_macos THEN "SUPER" \in mods ELSE "CONTROL" \in mods

\* The match of handle_key_input: the first arm that a key event selects.
\* code is the KeyCode, ch the character of KeyCode::Char.
KeyArm(code, ch, mods) ==
    CASE code = "Up" -> "Up"
      [] code = "Down" -> "Down"
      [] code = "Left" ->
            IF IsMacModifier(mods) THEN "LineStart"
            ELSE IF "ALT" \in mods THEN "ScrollLeft"
            ELSE IF "CONTROL" \in mods THEN "PrevPage"
            ELSE "Left"
      [] code = "Right" ->
            IF IsMacModifier(mods) THEN "LineEnd"
            ELSE IF "ALT" \in mods THEN "ScrollRight"
            ELSE IF "CONTROL" \in mods THEN "NextPage"
            ELSE "Right"
      [] code = "Home" -> "Home"
      [] code = "End" -> "End"
      [] code = "Char" ->
            IF ch \in {"p", "P"} /\ "CONTROL" \in mods THEN "TogglePane"
            ELSE IF ~IsMacModifier(mods) /\ "CONTROL" \notin mods THEN "Insert"
            ELSE IF ch \in {"c", "C"} /\ IsMacModifier(mods) THEN "Copy"
            ELSE IF ch \in {"x", "X"} /\ IsMacModifier(mods) THEN "Cut"
            ELSE IF ch \in {"v", "V"} /\ IsMacModifier(mods) THEN "Paste"
            ELSE IF ch \in {"s", "S"} /\ IsMacModifier(mods) THEN "Save"
            ELSE IF ch \in {"o", "O"} /\ IsMacModifier(mods) THEN "SaveSession"
            ELSE IF ch \in {"w", "W"} /\ IsMacModifier(mods) THEN "Quit"
            ELSE IF ch \in {"q", "Q"} /\ IsMacModifier(mods) THEN "Quit"
            ELSE "Ignored"
      [] code = "Backspace" -> "Backspace"
      [] code = "Enter" -> "Enter"
      [] code = "Esc" -> "Esc"
      [] code = "PageUp" -> "PageUp"
      [] code = "PageDown" -> "PageDown"
      [] OTHER -> "Ignored"

\* a - b on u16 values: [n, panic].  Below zero the subtraction panics
\* where overflow is checked and wraps where it is not.
SubU16(a, b, checks) ==
    IF a >= b THEN [n |-> a - b, panic |-> "none"]
    ELSE IF checks THEN [n |-> 0, panic |-> "attempt to subtract with overflow"]
    ELSE [n |-> a - b + U16Range, panic |-> "none"]

\* usize::saturating_sub
SaturatingSub(a, b) == IF a >= b THEN a - b ELSE 0

\* the characters typed in the model
TypedChars == {"a"}

----------------------------------------------------------------------------
(* Spec: a session of the editor.  Init is the editor as built by          *)
(* WysiwygEditor::new up to its call of load_page.                         *)

P_wide_b == <<Tok(<<"a">>, 7, 0, 30, 12), Tok(<<"W", "b">>, 0, 0, 30, 12)>>
P_tall  == <<Tok(<<"a", "z", "b">>, -7, 700, 30, 12), Tok(<<"b">>, 0, 0, 30, 12)>>
P_one   == <<Tok(<<"a">>, 7, 0, 30, 12)>>

\* the documents of the model
DocSet == { <<P_wide_b>>, <<P_tall, P_one>> }
\* the --page argument, the terminal size, the build target and the build
\* profile of the sessions of the model
StartConfigs ==
    { [page |-> 1, term |-> <<8, 5>>, macos |-> FALSE, checks |-> TRUE],
      [page |-> 1, term |-> <<8, 5>>, macos |-> TRUE, checks |-> FALSE],
      [page |-> 0, term |-> <<4, 1>>, macos |-> TRUE, checks |-> FALSE],
      [page |-> 0, term |-> <<4, 1>>, macos |-> FALSE, checks |-> TRUE],
      [page |-> 2, term |-> <<4, 1>>, macos |-> FALSE, checks |-> TRUE] }

Init ==
    /\ doc \in DocSet
    /\ elements = <<>>
    /\ \E c \in StartConfigs :
          /\ current_page = c.page
          /\ terminal_width = c.term[1]
          /\ terminal_height = c.term[2]
          /\ target_macos = c.macos
          /\ overflow_checks = c.checks
    /\ text_buffer = <<>>
    /\ cursor_x = 0
    /\ cursor_y = 0
    /\ is_all_selected = FALSE
    /\ clipboard = <<>>
    /\ viewport_offset_x = 0
    /\ viewport_offset_y = 0
    /\ content_grid = BlankGrid(0, 0)
    /\ grid_width = 0
    /\ grid_height = 0
    /\ panicked = "none"
    /\ edits = 0
    /\ pc = "new"
    /\ block = <<>>
    /\ classification = "none"
    /\ term_mode = "editor"
    /\ session = "unsaved"
    /\ key = "none"

Running == pc = "running" /\ panicked = "none"

\* editor.load_page() at the end of WysiwygEditor::new
Construct ==
    /\ pc = "new"
    /\ panicked = "none"
    /\ LoadPage(current_page)
    /\ pc' = "render"
    /\ UNCHANGED <<doc, current_page, terminal_width, terminal_height, cursor_x,
                   cursor_y, is_all_selected, clipboard, viewport_offset_x,
                   viewport_offset_y, target_macos, overflow_checks, edits>>
    /\ UNCHANGED <<block, classification, term_mode, session, key>>

\* handle_mouse_click
MouseClick ==
    /\ Running
    /\ LET last_row == SubU16(terminal_height, 1, overflow_checks)
       IN  IF last_row.panic # "none"
           THEN panicked' = last_row.panic /\ UNCHANGED <<cursor_x, cursor_y>>
           ELSE /\ panicked' = "none"
                /\ \E x \in 0..MaxCursor, y \in 0..MaxCursor :
                      IF y < last_row.n
                      THEN cursor_x' = x /\ cursor_y' = y
                      ELSE UNCHANGED <<cursor_x, cursor_y>>
    /\ UNCHANGED <<doc, elements, current_page, terminal_width, terminal_height,
                   text_buffer, is_all_selected, clipboard, viewport_offset_x,
                   viewport_offset_y, content_grid, grid_width, grid_height,
                   target_macos, overflow_checks, edits>>
    /\ pc' = "render"
    /\ UNCHANGED <<block, classification, term_mode, session, key>>

\* KeyCode::Up
KeyUp ==
    /\ Running
    /\ \E mods \in ModSets : KeyArm("Up", "", mods) = "Up"
    /\ cursor_y' = IF cursor_y > 0 THEN cursor_y - 1 ELSE cursor_y
    /\ UNCHANGED <<doc, elements, current_page, terminal_width, terminal_height,
                   text_buffer, cursor_x, is_all_selected, clipboard,
                   viewport_offset_x, viewport_offset_y, content_grid, grid_width,
                   grid_height, target_macos, overflow_checks, panicked, edits>>
    /\ pc' = "render"
    /\ UNCHANGED <<block, classification, term_mode, session, key>>

\* KeyCode::Down
KeyDown ==
    /\ Running
    /\ \E mods \in ModSets : KeyArm("Down", "", mods) = "Down"
    /\ cursor_y < MaxCursor
    /\ cursor_y' = cursor_y + 1
    /\ UNCHANGED <<doc, elements, current_page, terminal_width, terminal_height,
                   text_buffer, cursor_x, is_all_selected, clipboard,
                   viewport_offset_x, viewport_offset_y, content_grid, grid_width,
                   grid_height, target_macos, overflow_checks, panicked, edits>>
    /\ pc' = "render"
    /\ UNCHANGED <<block, classification, term_mode, session, key>>

\* KeyCode::Left if ALT
KeyScrollLeft ==
    /\ Running
    /\ \E mods \in ModSets : KeyArm("Left", "", mods) = "ScrollLeft"
    /\ viewport_offset_x' = SaturatingSub(viewport_offset_x, ScrollStep)
    /\ UNCHANGED <<doc, elements, current_page, terminal_width, terminal_height,
                   text_buffer, cursor_x, cursor_y, is_all_selected, clipboard,
                   viewport_offset_y, content_grid, grid_width, grid_height,
                   target_macos, overflow_checks, panicked, edits>>
    /\ pc' = "render"
    /\ UNCHANGED <<block, classification, term_mode, session, key>>

\* KeyCode::Right if ALT
KeyScrollRight ==
    /\ Running
    /\ \E mods \in ModSets : KeyArm("Right", "", mods) = "ScrollRight"
    /\ viewport_offset_x < MaxScrollX
    /\ viewport_offset_x' = Min2(viewport_offset_x + ScrollStep,
                                 SaturatingSub(grid_width, ScrollMarginCols))
    /\ UNCHANGED <<doc, elements, current_page, terminal_width, terminal_height,
                   text_buffer, cursor_x, cursor_y, is_all_selected, clipboard,
                   viewport_offset_y, content_grid, grid_width, grid_height,
                   target_macos, overflow_checks, panicked, edits>>
    /\ pc' = "render"
    /\ UNCHANGED <<block, classification, term_mode, session, key>>

\* KeyCode::PageUp
KeyPageUp ==
    /\ Running
    /\ \E mods \in ModSets : KeyArm("PageUp", "", mods) = "PageUp"
    /\ viewport_offset_y' = SaturatingSub(viewport_offset_y, ScrollStep)
    /\ UNCHANGED <<doc, elements, current_page, terminal_width, terminal_height,
                   text_buffer, cursor_x, cursor_y, is_all_selected, clipboard,
                   viewport_offset_x, content_grid, grid_width, grid_height,
                   target_macos, overflow_checks, panicked, edits>>
    /\ pc' = "render"
    /\ UNCHANGED <<block, classification, term_mode, session, key>>

\* PageDown in an editor whose scrolling discarded the grid
KeyPageDownClearing ==
    /\ Running
    /\ \E mods \in ModSets : KeyArm("PageDown", "", mods) = "PageDown"
    /\ viewport_offset_y < MaxScrollY
    /\ viewport_offset_y' = Min2(viewport_offset_y + ScrollStep,
                                 SaturatingSub(grid_height, ScrollMarginRows))
    /\ content_grid' = BlankGrid(grid_height, grid_width)
    /\ UNCHANGED <<doc, elements, current_page, terminal_width, terminal_height,
                   text_buffer, cursor_x, cursor_y, is_all_selected, clipboard,
                   viewport_offset_x, grid_width, grid_height,
                   target_macos, overflow_checks, panicked, edits>>
    /\ pc' = "render"
    /\ UNCHANGED <<block, classification, term_mode, session, key>>

\* KeyCode::PageDown
KeyPageDown ==
    /\ Running
    /\ \E mods \in ModSets : KeyArm("PageDown", "", mods) = "PageDown"
    /\ viewport_offset_y < MaxScrollY
    /\ viewport_offset_y' = Min2(viewport_offset_y + ScrollStep,
                                 SaturatingSub(grid_height, ScrollMarginRows))
    /\ UNCHANGED <<doc, elements, current_page, terminal_width, terminal_height,
                   text_buffer, cursor_x, cursor_y, is_all_selected, clipboard,
                   viewport_offset_x, content_grid, grid_width, grid_height,
                   target_macos, overflow_checks, panicked, edits>>
    /\ pc' = "render"
    /\ UNCHANGED <<block, classification, term_mode, session, key>>

\* KeyCode::Left if CONTROL: previous page
KeyPrevPage ==
    /\ Running
    /\ \E mods \in ModSets : KeyArm("Left", "", mods) = "PrevPage"
    /\ IF current_page > 1
       THEN /\ current_page' = current_page - 1
            /\ LoadPage(current_page - 1)
       ELSE UNCHANGED <<current_page, elements, text_buffer, content_grid,
                        grid_width, grid_height, panicked>>
    /\ UNCHANGED <<doc, terminal_width, terminal_height, cursor_x, cursor_y,
                   is_all_selected, clipboard, viewport_offset_x,
                   viewport_offset_y, target_macos, overflow_checks, edits>>
    /\ pc' = "render"
    /\ UNCHANGED <<block, classification, term_mode, session, key>>

\* KeyCode::Right if CONTROL: next page
KeyNextPage ==
    /\ Running
    /\ \E mods \in ModSets : KeyArm("Right", "", mods) = "NextPage"
    /\ current_page < MaxPages
    /\ current_page' = current_page + 1
    /\ LoadPage(current_page + 1)
    /\ UNCHANGED <<doc, terminal_width, terminal_height, cursor_x, cursor_y,
                   is_all_selected, clipboard, viewport_offset_x,
                   viewport_offset_y, target_macos, overflow_checks, edits>>
    /\ pc' = "render"
    /\ UNCHANGED <<block, classification, term_mode, session, key>>

\* KeyCode::Char(c) that reaches insert_char_at_cursor
KeyInsert ==
    /\ Running
    /\ edits < MaxEdits
    /\ \E c \in TypedChars :
          /\ \E mods \in ModSets : KeyArm("Char", c, mods) = "Insert"
          /\ LET r == InsertCharAtCursor(text_buffer, cursor_x, cursor_y, c)
             IN  /\ text_buffer' = r.text
                 /\ cursor_x' = r.cursor_x
                 /\ cursor_y' = r.cursor_y
    /\ is_all_selected' = FALSE
    /\ edits' = edits + 1
    /\ UNCHANGED <<doc, elements, current_page, terminal_width, terminal_height,
                   clipboard, viewport_offset_x, viewport_offset_y, content_grid,
                   grid_width, grid_height, target_macos, overflow_checks,
                   panicked>>
    /\ pc' = "render"
    /\ key' = "Insert"
    /\ UNCHANGED <<block, classification, term_mode, session>>

\* KeyCode::Enter
KeyEnter ==
    /\ Running
    /\ edits < MaxEdits
    /\ \E mods \in ModSets : KeyArm("Enter", "", mods) = "Enter"
    /\ LET r == InsertCharAtCursor(text_buffer, cursor_x, cursor_y, "\n")
       IN  /\ text_buffer' = r.text
           /\ cursor_x' = r.cursor_x
           /\ cursor_y' = r.cursor_y
    /\ is_all_selected' = FALSE
    /\ edits' = edits + 1
    /\ UNCHANGED <<doc, elements, current_page, terminal_width, terminal_height,
                   clipboard, viewport_offset_x, viewport_offset_y, content_grid,
                   grid_width, grid_height, target_macos, overflow_checks,
                   panicked>>
    /\ pc' = "render"
    /\ key' = "Enter"
    /\ UNCHANGED <<block, classification, term_mode, session>>

\* KeyCode::Backspace
KeyBackspace ==
    /\ Running
    /\ edits < MaxEdits
    /\ \E mods \in ModSets : KeyArm("Backspace", "", mods) = "Backspace"
    /\ LET r == DeleteCharAtCursor(text_buffer, cursor_x, cursor_y)
       IN  /\ text_buffer' = r.text
           /\ cursor_x' = r.cursor_x
    /\ is_all_selected' = FALSE
    /\ edits' = edits + 1
    /\ UNCHANGED <<doc, elements, current_page, terminal_width, terminal_height,
                   cursor_y, clipboard, viewport_offset_x, viewport_offset_y,
                   content_grid, grid_width, grid_height, target_macos,
                   overflow_checks, panicked>>
    /\ pc' = "render"
    /\ key' = "Backspace"
    /\ UNCHANGED <<block, classification, term_mode, session>>

\* render, at the top of every iteration of the main loop: the text buffer
\* is printed line by line (render_text_only), then the status line and the
\* cursor; nothing of the editor changes unless a subtraction overflows
Render ==
    /\ pc = "render"
    /\ panicked = "none"
    /\ LET text_rows == SubU16(terminal_height, StatusRows, overflow_checks)
           status_row == SubU16(terminal_height, 1, overflow_checks)
       IN  panicked' = IF Lines(text_buffer) # <<>> /\ text_rows.panic # "none"
                       THEN text_rows.panic
                       ELSE status_row.panic
    /\ pc' = "running"
    /\ UNCHANGED <<doc, elements, current_page, terminal_width, terminal_height,
                   text_buffer, cursor_x, cursor_y, is_all_selected, clipboard,
                   viewport_offset_x, viewport_offset_y, content_grid, grid_width,
                   grid_height, target_macos, overflow_checks, edits>>
    /\ key' = "none"
    /\ UNCHANGED <<block, classification, term_mode, session>>

Next ==
    \/ Construct
    \/ Render
    \/ MouseClick
    \/ KeyUp
    \/ KeyDown
    \/ KeyScrollLeft
    \/ KeyScrollRight
    \/ KeyPageUp
    \/ KeyPageDown
    \/ KeyPrevPage
    \/ KeyNextPage
    \/ KeyInsert
    \/ KeyEnter
    \/ KeyBackspace

Spec == Init /\ [][Next]_vars

----------------------------------------------------------------------------
(* The grid/text bridge of spec.md section 4.5.  No file under src/ holds  *)
(* to_text or from_text; they are modelled from the section's wording.     *)

\* row r of the grid as a string of g.cols characters
RowOf(g, r) == [c \in 1..g.cols |-> CellAt(g, r, c - 1)]

\* to_text(grid): rows right-trimmed and joined with newline, the leading
\* and trailing fully-blank rows removed
to_text(g) ==
    LET rendered == [r \in 1..g.rows |-> TrimEnd(RowOf(g, r - 1))]
        nonblank == {r \in 1..g.rows : rendered[r] # <<>>}
    IN  IF nonblank = {} THEN <<>>
        ELSE JoinLines(SubSeq(rendered, MinOf(nonblank), MaxOf(nonblank)))

\* from_text(grid, text): all cells cleared, then character c of line r
\* written to cell [r][c] when inside the grid
from_text(g, text) ==
    LET lines == Lines(text)
        keys == {k \in (0..(g.rows - 1)) \X (0..(g.cols - 1)) :
                    /\ k[1] < Len(lines)
                    /\ k[2] < Len(lines[k[1] + 1])
                    /\ lines[k[1] + 1][k[2] + 1] # " "}
    IN  [rows |-> g.rows, cols |-> g.cols,
         cells |-> [k \in keys |-> lines[k[1] + 1][k[2] + 1]]]

BridgeChars == {"a", "b"}
BridgeGrids ==
    { [rows |-> BridgeRows, cols |-> BridgeCols, cells |-> f] :
        f \in UNION { [S -> BridgeChars] :
                        S \in SUBSET ((0..(BridgeRows - 1)) \X (0..(BridgeCols - 1))) } }

InitBridge ==
    /\ doc = <<>>
    /\ elements = <<>>
    /\ current_page = 1
    /\ terminal_width = 8
    /\ terminal_height = 5
    /\ text_buffer = <<>>
    /\ cursor_x = 0
    /\ cursor_y = 0
    /\ is_all_selected = FALSE
    /\ clipboard = <<>>
    /\ viewport_offset_x = 0
    /\ viewport_offset_y = 0
    /\ content_grid \in BridgeGrids
    /\ grid_width = BridgeCols
    /\ grid_height = BridgeRows
    /\ target_macos = FALSE
    /\ overflow_checks = FALSE
    /\ panicked = "none"
    /\ edits = 0
    /\ pc = "grid"
    /\ block = <<>>
    /\ classification = "none"
    /\ term_mode = "editor"
    /\ session = "unsaved"
    /\ key = "none"

\* text_buffer = to_text(content_grid)
ToText ==
    /\ pc = "grid"
    /\ text_buffer' = to_text(content_grid)
    /\ pc' = "text"
    /\ UNCHANGED <<doc, elements, current_page, terminal_width, terminal_height,
                   cursor_x, cursor_y, is_all_selected, clipboard,
                   viewport_offset_x, viewport_offset_y, content_grid, grid_width,
                   grid_height, target_macos, overflow_checks, panicked, edits>>
    /\ UNCHANGED <<block, classification, term_mode, session, key>>

\* content_grid = from_text(content_grid, text_buffer)
FromText ==
    /\ pc = "text"
    /\ content_grid' = from_text(content_grid, text_buffer)
    /\ pc' = "round"
    /\ UNCHANGED <<doc, elements, current_page, terminal_width, terminal_height,
                   text_buffer, cursor_x, cursor_y, is_all_selected, clipboard,
                   viewport_offset_x, viewport_offset_y, grid_width, grid_height,
                   target_macos, overflow_checks, panicked, edits>>
    /\ UNCHANGED <<block, classification, term_mode, session, key>>

NextBridge == ToText \/ FromText

SpecBridge == InitBridge /\ [][NextBridge]_vars

----------------------------------------------------------------------------
(* Helpers of the claims about the grid rebuild *)

\* number of grid cells the characters of a content occupy
RECURSIVE ContentCells(_)
ContentCells(content) ==
    IF content = <<>> THEN 0
    ELSE CharWidth(Head(content)) + ContentCells(Tail(content))

\* the grid of the page els after the first k elements and the first m
\* characters of element k + 1 have been placed
PlacedAfter(els, k, m) ==
    LET part == IF k < Len(els) /\ m > 0
                THEN Append(SubSeq(els, 1, k),
                            [els[k + 1] EXCEPT !.content = SubSeq(@, 1, m)])
                ELSE SubSeq(els, 1, k)
        gw == GridWidthFor(els)
        gh == GridHeightFor(els)
    IN  PlaceElements([grid |-> BlankGrid(gh, gw), fault |-> FALSE],
                      part, 1, ContentBounds(els), gw, gh).grid

\* whether the character loop of element e ends at its break on an empty grid
HitsBreak(e, els) ==
    LET gw == GridWidthFor(els)
        gh == GridHeightFor(els)
        b  == ContentBounds(els)
    IN  PlaceChars([grid |-> BlankGrid(gh, gw), x |-> StartCol(e, b),
                    stop |-> FALSE, fault |-> FALSE],
                   e.content, 1, Len(e.content), StartRow(e, b), gw, gh).stop

Clamp(v, lo, hi) == Max2(lo, Min2(v, hi))

\* the orderings of a token list
Orderings(els) ==
    LET n == Len(els)
        bij == {q \in [1..n -> 1..n] : \A i, j \in 1..n : q[i] = q[j] => i = j}
    IN  {[i \in 1..n |-> els[q[i]]] : q \in bij}

\* a page with tokens has been loaded and the rebuild has returned
Built == pc = "built" /\ elements # <<>> /\ panicked = "none"

----------------------------------------------------------------------------
(* Claims checked under SpecGrid *)

C2_ViewportReadsInsideGrid ==
    /\ panicked # "index out of bounds (get_viewport_text)"
    /\ ( /\ pc \in {"new_viewed", "built_viewed"}
         /\ panicked = "none"
         /\ (viewport_offset_x >= grid_width \/ viewport_offset_y >= grid_height) )
       => text_buffer = <<>>

\* a viewport extraction whose window straddles the right and the bottom
\* edge of a rebuilt grid
C2_Witness ==
    /\ pc = "built_viewed"
    /\ panicked = "none"
    /\ elements # <<>>
    /\ viewport_offset_x < grid_width
    /\ viewport_offset_x + ViewportWidth(terminal_width) > grid_width
    /\ viewport_offset_y < grid_height
    /\ viewport_offset_y + ViewportHeight(terminal_height, overflow_checks).n
           > grid_height

\* C3: during a rebuild a cell that holds a non-space character is never
\* changed by a later character or token, the continuation cell of a
\* double-width character included.
C3_FirstWriterWins ==
    Built =>
        \A k \in 0..(Len(elements) - 1) :
            \A m \in 0..Len(elements[k + 1].content) :
                LET g == PlacedAfter(elements, k, m)
                IN  \A c \in DOMAIN g.cells :
                        CellAt(content_grid, c[1], c[2]) = g.cells[c]

\* C7: after a rebuild the grid contains the content: no token's character
\* loop is cut by the column check and no token's row is clamped.
C7_GridContainsContent ==
    Built =>
        \A i \in DOMAIN elements :
            LET e == elements[i]
                b == ContentBounds(elements)
            IN  /\ StartCol(e, b) + ContentCells(e.content) <= grid_width
                /\ StartRow(e, b) < grid_height
                /\ ~HitsBreak(e, elements)

C9_OrderIndependent ==
    Built =>
        \A p \in Orderings(elements) :
            BuildGrid(p).content_grid = content_grid

\* C10: no token with non-empty content is dropped: the placement of each
\* token writes at least one cell.
C10_NoTokenDropped ==
    Built =>
        \A i \in DOMAIN elements :
            elements[i].content # <<>> =>
                PlacedAfter(elements, i, 0) # PlacedAfter(elements, i - 1, 0)

----------------------------------------------------------------------------
(* Claims checked under SpecBridge *)

\* whether every row of h has the character content of the same row of g,
\* trailing spaces ignored
SameRows(g, h) ==
    /\ h.rows = g.rows
    /\ \A r \in 0..(g.rows - 1) : TrimEnd(RowOf(h, r)) = TrimEnd(RowOf(g, r))

\* C4: for every grid g, from_text(g, to_text(g)) is a grid whose every row r
\* has the character content of row r of g, trailing spaces ignored; the
\* leading and interior spacing and the row index of each line are kept.
C4_RoundTrip ==
    [][pc = "text" /\ pc' = "round" => SameRows(content_grid, content_grid')]_vars

----------------------------------------------------------------------------
(* Claims checked under Spec *)

\* the character of text line r at character index c, a space past the text
TextAt(lines, r, c) ==
    IF r < Len(lines) /\ c < Len(lines[r + 1]) THEN lines[r + 1][c + 1] ELSE " "

\* whether every cell [r][c] of the grid holds character c of text line r
GridHoldsText(g, text) ==
    LET lines == Lines(text)
    IN  /\ \A k \in DOMAIN g.cells : g.cells[k] = TextAt(lines, k[1], k[2])
        /\ \A r \in 0..(Len(lines) - 1) : \A c \in 0..(Len(lines[r + 1]) - 1) :
              InVecs(g, r, c) => CellAt(g, r, c) = lines[r + 1][c + 1]

\* C5: after every edit of the text (a typed character, Enter, Backspace) the
\* edited text is re-ingested into the grid: every cell [r][c] inside the
\* grid holds character c of text line r and every other cell is a space, so
\* the content grid and the text buffer agree after the edit.
C5_EditsReingested ==
    [][edits' = edits + 1 => GridHoldsText(content_grid', text_buffer')]_vars

\* C6: whenever a page load leaves the token store empty (a page with no
\* tokens, or a page index past the end of the document) the grid and the
\* text are both empty afterwards: no cell of the content grid still holds a
\* character of the page loaded before.
C6_EmptyStoreClearsGrid ==
    [][(pc = "new" \/ current_page' # current_page)
          /\ elements' = <<>> /\ panicked' = "none"
       => text_buffer' = <<>> /\ DOMAIN content_grid'.cells = {}]_vars

----------------------------------------------------------------------------
(* Further claims checked under SpecGrid *)

\* index of the first character of content that does not fit in room cells
FirstOverflow(content, room) ==
    CHOOSE k \in 1..Len(content) :
        /\ ContentCells(SubSeq(content, 1, k)) > room
        /\ ContentCells(SubSeq(content, 1, k - 1)) <= room

\* C11: when a token's run of characters exceeds the column bound, the
\* remaining characters wrap to the next row starting at the token's
\* starting column; characters are dropped only past the row bound as well.
C11_WrapsAtColumnBound ==
    Built =>
        \A i \in DOMAIN elements :
            LET e == elements[i]
                b == ContentBounds(elements)
                col == StartCol(e, b)
                row == Min2(StartRow(e, b), grid_height - 1)
                room == grid_width - col
            IN  (ContentCells(e.content) > room /\ row + 1 < grid_height) =>
                    CellAt(content_grid, row + 1, col)
                        = e.content[FirstOverflow(e.content, room)]

\* whether the characters of content lie in row, from column col on, each
\* at the column its predecessors' widths give
HoldsRun(g, row, col, content) ==
    \A k \in 1..Len(content) :
        CellAt(g, row, col + ContentCells(SubSeq(content, 1, k - 1))) = content[k]

\* C12: two tokens on the same line appear in ascending h_pos order, each
\* with its full content, separated by at least one space; the words CITY
\* and CASH of the title line give the line "CITY CASH".
C12_TokensSeparated ==
    Built =>
        /\ \A i, j \in DOMAIN elements :
              LET b == ContentBounds(elements)
                  row_i == Min2(StartRow(elements[i], b), grid_height - 1)
                  row_j == Min2(StartRow(elements[j], b), grid_height - 1)
                  col_i == StartCol(elements[i], b)
                  col_j == StartCol(elements[j], b)
              IN  (row_i = row_j /\ elements[i].hpos < elements[j].hpos) =>
                      /\ HoldsRun(content_grid, row_i, col_i, elements[i].content)
                      /\ HoldsRun(content_grid, row_j, col_j, elements[j].content)
                      /\ col_j >= col_i + ContentCells(elements[i].content) + 1
        /\ elements = P_title =>
              TrimEnd(RowOf(content_grid, 0))
                  = <<"C", "I", "T", "Y", " ", "C", "A", "S", "H">>

\* the viewport text is current: a viewport extraction, or a rebuild of a
\* page with tokens, has just returned
Viewed ==
    /\ panicked = "none"
    /\ \/ pc \in {"new_viewed", "built_viewed"}
       \/ pc = "built" /\ elements # <<>>

\* the cells grid[offset_y + r][offset_x + c], c in 0..visible_width - 1, a
\* space where out of range
WindowRow(r) ==
    [c \in 1..ViewportWidth(terminal_width) |->
        IF viewport_offset_y + r < grid_height
           /\ viewport_offset_x + (c - 1) < grid_width
        THEN CellAt(content_grid, viewport_offset_y + r, viewport_offset_x + (c - 1))
        ELSE " "]

\* row r of the text, empty past its last line
TextRow(text, r) ==
    LET ls == Lines(text) IN IF r < Len(ls) THEN ls[r + 1] ELSE <<>>

\* C13: each rendered row r of the viewport text equals the cells
\* grid[offset_y + r][offset_x + c] for c in 0..visible_width - 1 (a space
\* where out of range) with the trailing spaces of the row removed and its
\* leading and interior spaces kept.
C13_ViewportRowsAreWindow ==
    Viewed =>
        LET vh == ViewportHeight(terminal_height, overflow_checks).n
        IN  /\ Len(Lines(text_buffer)) <= vh
            /\ \A r \in 0..(vh - 1) :
                  TextRow(text_buffer, r) = TrimEnd(WindowRow(r))

\* a viewport text with a row that starts with spaces and has spaces between
\* two words
C13_Witness ==
    /\ Viewed
    /\ \E r \in 0..(Len(Lines(text_buffer)) - 1) :
          LET line == TextRow(text_buffer, r)
          IN  /\ Len(line) > 2
              /\ line[1] = " "
              /\ \E k \in 2..(Len(line) - 1) : line[k] = " " /\ line[k - 1] # " "

-----------------------------------------------------------------------------
(* Further claims checked under Spec *)

\* a step of a scroll key: Alt+Left, Alt+Right, PageUp or PageDown
ScrollStepTaken ==
    \/ viewport_offset_x' # viewport_offset_x
    \/ viewport_offset_y' # viewport_offset_y

\* C14: the scroll keys (Alt+Left, Alt+Right, PageUp, PageDown) change only
\* the viewport offsets: content_grid, grid_width and grid_height are the
\* same after the key as before it.
C14_ScrollKeepsGrid ==
    [][ScrollStepTaken => UNCHANGED <<content_grid, grid_width, grid_height>>]_vars

\* scrolled both ways over a grid that holds characters
C14_Witness ==
    /\ pc = "render"
    /\ panicked = "none"
    /\ viewport_offset_x > 0
    /\ viewport_offset_y > 0
    /\ DOMAIN content_grid.cells # {}

\* C15: when a scroll key is pressed on a page that has tokens and was not
\* edited, the text buffer after the key is the viewport window of the grid
\* at the new offsets.
C15_ScrollRefreshesText ==
    [][(ScrollStepTaken /\ edits = 0 /\ elements # <<>>)
         => text_buffer' =
              GetViewportText(content_grid', grid_width', grid_height',
                              viewport_offset_x', viewport_offset_y',
                              terminal_width', terminal_height',
                              overflow_checks').text]_vars

\* C17: every page change made by Ctrl+Left or Ctrl+Right leaves the viewport
\* offsets and the cursor at 0 and the select-all flag false.
C17_PageChangeResets ==
    [][(current_page' # current_page /\ panicked' = "none")
         => /\ viewport_offset_x' = 0
            /\ viewport_offset_y' = 0
            /\ cursor_x' = 0
            /\ cursor_y' = 0
            /\ ~is_all_selected']_vars

\* C16: an input event that leaves the text buffer as it was schedules no
\* repaint and rebuilds no grid.
C16_RepaintOnlyOnTextChange ==
    [][(pc = "running" /\ text_buffer' = text_buffer)
         => /\ pc' # "render"
            /\ UNCHANGED <<content_grid, grid_width, grid_height>>]_vars

\* C18: grid_width and grid_height are positive once a page with tokens has
\* been rebuilt, and no step of the session makes either of them smaller.
C18_GridNeverShrinks ==
    [][/\ grid_width' >= grid_width
       /\ grid_height' >= grid_height
       /\ (elements' # <<>> /\ panicked' = "none")
            => (grid_width' > 0 /\ grid_height' > 0)]_vars

\* C19: once the editor is constructed, no key or mouse event and no repaint
\* that follows one ends in a panic.
C19_NoPanic == [][pc # "new" => panicked' = "none"]_vars

-----------------------------------------------------------------------------
(* The block classifier: metrics and the decision rule, taken in its order *)

MaxLines == 2
MaxLineTokens == 2

\* "within a fixed threshold (e.g. 40 units) of that bin's current centroid"
ColumnThreshold == 40
\* "any gap exceeds a fixed threshold (e.g. 50 units)"
BigGapThreshold == 50
\* left_margin_variance < 20.0
VarianceLimit == 20
\* avg_content_width > 200.0
WidthLimit == 200
\* big_gap_ratio > 0.25, as the fraction RatioNum / RatioDen
RatioNum == 1
RatioDen == 4

ClassHPos == {0, 32, 100}
ClassWidths == {30, 250}
ClassTokens == [h_pos : ClassHPos, width : ClassWidths]

\* a Line: at least one token, tokens in ascending h_pos
ClassLines ==
    {l \in SeqsUpTo(ClassTokens, MaxLineTokens) :
        /\ Len(l) >= 1
        /\ \A i \in 1..(Len(l) - 1) : l[i].h_pos <= l[i + 1].h_pos}

\* a Block: a sequence of Lines, possibly none
BlockSet == SeqsUpTo(ClassLines, MaxLines)

RECURSIVE SumSeq(_)
SumSeq(q) == IF q = <<>> THEN 0 ELSE Head(q) + SumSeq(Tail(q))

Abs(n) == IF n < 0 THEN 0 - n ELSE n

\* the leftmost token's h_pos of each Line
left_margins(b) == [i \in 1..Len(b) |-> b[i][1].h_pos]

\* variance of the left margins across Lines < limit.  With n Lines the
\* variance is (n * sum x^2 - (sum x)^2) / n^2; over zero Lines it is 0/0 and
\* compares false.
left_margin_variance_below(b, limit) ==
    LET xs == left_margins(b)
        n == Len(xs)
        sq == [i \in 1..n |-> xs[i] * xs[i]]
    IN  n > 0 /\ n * SumSeq(sq) - SumSeq(xs) * SumSeq(xs) < limit * n * n

\* rightmost_edge - leftmost_edge of each Line
content_widths(b) ==
    [i \in 1..Len(b) |->
        MaxOf({b[i][k].h_pos + b[i][k].width : k \in 1..Len(b[i])}) - b[i][1].h_pos]

\* average content width across Lines > limit; 0/0 over zero Lines
avg_content_width_above(b, limit) ==
    Len(b) > 0 /\ SumSeq(content_widths(b)) > limit * Len(b)

\* every token's h_pos, Line by Line
RECURSIVE all_h_pos(_)
all_h_pos(b) ==
    IF b = <<>> THEN <<>>
    ELSE [k \in 1..Len(Head(b)) |-> Head(b)[k].h_pos] \o all_h_pos(Tail(b))

\* greedy centroid bins; a centroid is the fraction num / den.  A value joins
\* the first bin whose centroid is within the threshold and moves the
\* centroid to the midpoint; otherwise it starts a bin.
RECURSIVE column_bins(_, _)
column_bins(values, bins) ==
    IF values = <<>> THEN bins
    ELSE LET v == Head(values)
             near == {k \in DOMAIN bins :
                        Abs(v * bins[k].den - bins[k].num) <= ColumnThreshold * bins[k].den}
         IN  column_bins(Tail(values),
                IF near = {} THEN Append(bins, [num |-> v, den |-> 1])
                ELSE LET k == MinOf(near)
                     IN  [bins EXCEPT ![k] = [num |-> bins[k].num + v * bins[k].den,
                                              den |-> 2 * bins[k].den]])

\* bin count >= 2
multi_column(b) == Len(column_bins(all_h_pos(b), <<>>)) >= 2

\* some gap between consecutive right edges, in ascending order, exceeds the
\* threshold
has_big_gap(l) ==
    LET edges == {l[k].h_pos + l[k].width : k \in 1..Len(l)}
    IN  \E lo \in edges, hi \in edges :
            /\ hi - lo > BigGapThreshold
            /\ ~\E mid \in edges : lo < mid /\ mid < hi

\* fraction of Lines with a big gap > num / den; 0/0 over zero Lines
big_gap_ratio_above(b, num, den) ==
    /\ Len(b) > 0
    /\ den * Cardinality({i \in 1..Len(b) : has_big_gap(b[i])}) > num * Len(b)

\* the decision rule, in its stated order
DecisionRule(b) ==
    << [match |-> multi_column(b) /\ big_gap_ratio_above(b, RatioNum, RatioDen),
        class |-> "table"],
       [match |-> /\ left_margin_variance_below(b, VarianceLimit)
                  /\ avg_content_width_above(b, WidthLimit),
        class |-> "paragraph"],
       [match |-> TRUE, class |-> "unknown"],
       [match |-> Len(b) = 0, class |-> "empty"] >>

\* first match wins
classify(b) ==
    LET rules == DecisionRule(b)
    IN  rules[MinOf({k \in DOMAIN rules : rules[k].match})].class

InitClassify ==
    /\ doc = <<>>
    /\ elements = <<>>
    /\ current_page = 1
    /\ terminal_width = 8
    /\ terminal_height = 5
    /\ text_buffer = <<>>
    /\ cursor_x = 0
    /\ cursor_y = 0
    /\ is_all_selected = FALSE
    /\ clipboard = <<>>
    /\ viewport_offset_x = 0
    /\ viewport_offset_y = 0
    /\ content_grid = BlankGrid(0, 0)
    /\ grid_width = 0
    /\ grid_height = 0
    /\ target_macos = FALSE
    /\ overflow_checks = FALSE
    /\ panicked = "none"
    /\ edits = 0
    /\ block \in BlockSet
    /\ classification = "none"
    /\ term_mode = "editor"
    /\ session = "unsaved"
    /\ key = "none"
    /\ pc = "block"

\* classify(block)
Classify ==
    /\ pc = "block"
    /\ classification' = classify(block)
    /\ pc' = "classified"
    /\ UNCHANGED <<doc, elements, current_page, terminal_width, terminal_height,
                   text_buffer, cursor_x, cursor_y, is_all_selected, clipboard,
                   viewport_offset_x, viewport_offset_y, content_grid, grid_width,
                   grid_height, target_macos, overflow_checks, panicked, edits,
                   block, term_mode, session, key>>

NextClassify == Classify

SpecClassify == InitClassify /\ [][NextClassify]_vars

\* C20: classify returns exactly one of table, paragraph, unknown and empty
\* for every Block, and empty for a Block with zero Lines.
C20_ClassifyTotal ==
    pc = "classified"
        => /\ classification \in {"table", "paragraph", "unknown", "empty"}
           /\ (Len(block) = 0 => classification = "empty")

-----------------------------------------------------------------------------
(* SpecMain: main, from setup_terminal to its return *)

InitMain ==
    /\ doc \in DocSet
    /\ elements = <<>>
    /\ \E c \in StartConfigs :
          /\ current_page = c.page
          /\ terminal_width = c.term[1]
          /\ terminal_height = c.term[2]
          /\ target_macos = c.macos
          /\ overflow_checks = c.checks
    /\ text_buffer = <<>>
    /\ cursor_x = 0
    /\ cursor_y = 0
    /\ is_all_selected = FALSE
    /\ clipboard = <<>>
    /\ viewport_offset_x = 0
    /\ viewport_offset_y = 0
    /\ content_grid = BlankGrid(0, 0)
    /\ grid_width = 0
    /\ grid_height = 0
    /\ panicked = "none"
    /\ edits = 0
    /\ block = <<>>
    /\ classification = "none"
    /\ term_mode = "normal"
    /\ session = "unsaved"
    /\ key = "none"
    /\ pc = "start"

\* the editor's fields, none of which the steps of main itself assign
EditorFields ==
    <<doc, elements, current_page, terminal_width, terminal_height, text_buffer,
      cursor_x, cursor_y, is_all_selected, clipboard, viewport_offset_x,
      viewport_offset_y, content_grid, grid_width, grid_height, target_macos,
      overflow_checks, panicked, edits, block, classification, key>>

\* setup_terminal returns Ok
SetupTerminal ==
    /\ pc = "start"
    /\ term_mode' = "editor"
    /\ pc' = "new"
    /\ UNCHANGED <<EditorFields, session>>

\* setup_terminal returns Err, before or after enable_raw_mode took effect:
\* main returns the error
SetupTerminalFails ==
    /\ pc = "start"
    /\ term_mode' \in {"normal", "raw_only"}
    /\ pc' = "returned"
    /\ UNCHANGED <<EditorFields, session>>

\* WysiwygEditor::new(cli.file, cli.page)? returns Err (terminal::size,
\* init_mac_directories or load_page failed): the ? leaves main at once
ConstructFails ==
    /\ pc = "new"
    /\ panicked = "none"
    /\ pc' = "returned"
    /\ UNCHANGED <<EditorFields, term_mode, session>>

\* the panic hook: an emergency restore of the terminal, then the process
\* aborts without returning from main
PanicHook ==
    /\ panicked # "none"
    /\ pc # "aborted"
    /\ term_mode' = "emergency_restored"
    /\ pc' = "aborted"
    /\ UNCHANGED <<EditorFields, session>>

\* editor.render() returns Err
RenderFails ==
    /\ pc = "render"
    /\ panicked = "none"
    /\ pc' = "render_failed"
    /\ UNCHANGED <<EditorFields, term_mode, session>>

\* Err(e) => { eprintln!(..); terminal_state_clean = false; continue; }
ContinueAfterRenderError ==
    /\ pc = "render_failed"
    /\ pc' = "render"
    /\ UNCHANGED <<EditorFields, term_mode, session>>

\* W or Q with the platform command modifier: handle_key_input returns
\* Ok(true)
KeyQuit ==
    /\ Running
    /\ \E ch \in {"w", "W", "q", "Q"}, mods \in ModSets :
          KeyArm("Char", ch, mods) = "Quit"
    /\ pc' = "quit"
    /\ UNCHANGED <<EditorFields, term_mode, session>>

\* Ok(true) => { let _ = editor.save_session_state(); break; }
SaveSessionAndBreak ==
    /\ pc = "quit"
    /\ session' \in {"saved", "save_failed"}
    /\ pc' = "cleanup"
    /\ UNCHANGED <<EditorFields, term_mode>>

\* cleanup_terminal, then main returns result
CleanupTerminal ==
    /\ pc = "cleanup"
    /\ term_mode' \in {"restored", "cleanup_failed"}
    /\ pc' = "returned"
    /\ UNCHANGED <<EditorFields, session>>

NextMain ==
    \/ SetupTerminal
    \/ SetupTerminalFails
    \/ Construct
    \/ ConstructFails
    \/ PanicHook
    \/ Render
    \/ RenderFails
    \/ ContinueAfterRenderError
    \/ MouseClick
    \/ KeyUp
    \/ KeyDown
    \/ KeyQuit
    \/ SaveSessionAndBreak
    \/ CleanupTerminal

SpecMain == InitMain /\ [][NextMain]_vars

\* C21: whenever main has returned after setup_terminal succeeded,
\* cleanup_terminal was executed.
C21_CleanupBeforeReturn ==
    (pc = "returned" /\ term_mode \notin {"normal", "raw_only"})
        => term_mode \in {"restored", "cleanup_failed"}

\* C27: a quit key is followed by the session save, the end of the loop and
\* cleanup_terminal; only a quit key ends the loop; and after a failing
\* render the loop goes on to read the next event.
C27_QuitIsServed ==
    [][/\ pc = "quit" => (pc' = "cleanup" /\ session' # "unsaved")
       /\ pc = "cleanup" => (pc' = "returned" /\ term_mode' # "editor")
       /\ (pc' = "quit" /\ pc # "quit") => pc = "running"
       /\ pc = "render_failed" => pc' = "running"]_vars

-----------------------------------------------------------------------------
(* The cursor and clipboard arms of handle_key_input *)

MaxEditCursor == 3

\* what a cursor or clipboard arm leaves alone besides the text, the cursor,
\* the selection and the clipboard
KeyFrame ==
    <<doc, elements, current_page, terminal_width, terminal_height,
      viewport_offset_x, viewport_offset_y, content_grid, grid_width, grid_height,
      target_macos, overflow_checks, panicked, block, classification, term_mode,
      session>>

\* lines.get(cursor_y as usize): whether the line exists
HasLine(text, cy) == cy < Len(Lines(text))
LineAt(text, cy) == Lines(text)[cy + 1]

\* str::len of a line: the bytes of its UTF-8 encoding
Utf8Len(ch) ==
    IF ch \in WideChars \/ ch = ZWSP THEN 3
    ELSE IF ch \in ZeroWidthChars THEN 2
    ELSE 1
RECURSIVE ByteLen(_)
ByteLen(line) == IF line = <<>> THEN 0 ELSE Utf8Len(Head(line)) + ByteLen(Tail(line))

\* visual_col before the character at index k (1-based) of the line
VisualCol(line, k) == ContentCells(SubSeq(line, 1, k - 1))

\* KeyCode::Left with cursor_x > 0 on an existing line: the loop stops at the
\* first character that starts at or after the cursor and takes the start
\* of the character before it; when no character does, the cursor moves
\* only if it is beyond the whole line
LeftOnLine(line, cx) ==
    LET at_or_after == {k \in 1..Len(line) : VisualCol(line, k) >= cx}
    IN  IF at_or_after # {}
        THEN VisualCol(line, MinOf(at_or_after) - 1)
        ELSE IF ContentCells(line) < cx THEN cx - 1 ELSE cx

\* KeyCode::Left: the new cursor_x
LeftTarget(text, cx, cy) ==
    IF cx = 0 THEN 0
    ELSE IF HasLine(text, cy) THEN LeftOnLine(LineAt(text, cy), cx)
    ELSE cx - 1

\* KeyCode::Right: the new cursor_x
RightTarget(text, cx, cy) ==
    LET line == IF HasLine(text, cy) THEN LineAt(text, cy) ELSE <<>>
        at == {k \in 1..Len(line) : VisualCol(line, k) = cx}
    IN  IF at # {} THEN cx + CharWidth(line[MinOf(at)]) ELSE cx + 1

\* KeyCode::End and Right with the platform modifier: the new cursor_x
EndTarget(text, cy) ==
    IF HasLine(text, cy) THEN ByteLen(LineAt(text, cy)) ELSE 0

\* copy_selection: the new clipboard
CopySelectionAlways(text, selected, clip) == text
CopySelection(text, selected, clip) == IF selected THEN text ELSE clip

\* safe_cursor_pos of paste_from_clipboard, computed on the line before it
\* is padded: byte_pos is assigned before char_count is advanced
PasteCursorPos(line, cx) ==
    IF Len(line) < cx THEN Len(line)
    ELSE IF cx = 0 THEN 0
    ELSE cx - 1

\* paste_from_clipboard with clipboard text clip: [text, cursor_x, cursor_y]
PasteFromClipboard(text, cx, cy, clip) ==
    IF clip = <<>> THEN [text |-> text, cursor_x |-> cx, cursor_y |-> cy]
    ELSE LET new_lines == PadLines(Lines(text), cy)
             safe_cursor_pos == PasteCursorPos(new_lines[cy + 1], cx)
             current_line == PadLine(new_lines[cy + 1], cx)
             clipboard_lines == Lines(clip)
             n == Len(clipboard_lines)
             first == IF n = 0 THEN <<>> ELSE clipboard_lines[1]
             pos == Min2(safe_cursor_pos, Len(current_line))
         IN  IF n <= 1
             THEN [text |-> JoinLines([new_lines EXCEPT ![cy + 1] =
                                SubSeq(current_line, 1, pos) \o first
                                    \o SubSeq(current_line, pos + 1, Len(current_line))]),
                   cursor_x |-> cx + Len(first),
                   cursor_y |-> cy]
             ELSE LET remaining_text == SubSeq(current_line, pos + 1, Len(current_line))
                      head_line == SubSeq(current_line, 1, pos) \o first
                      last_line == clipboard_lines[n] \o remaining_text
                  IN  [text |-> JoinLines(SubSeq(new_lines, 1, cy)
                                    \o <<head_line>>
                                    \o SubSeq(clipboard_lines, 2, n - 1)
                                    \o <<last_line>>
                                    \o SubSeq(new_lines, cy + 2, Len(new_lines))),
                       cursor_x |-> Len(clipboard_lines[n]),
                       cursor_y |-> cy + (n - 1)]

\* KeyCode::Left if is_mac_modifier
KeyLineStart ==
    /\ Running
    /\ \E mods \in ModSets : KeyArm("Left", "", mods) = "LineStart"
    /\ cursor_x' = 0
    /\ key' = "LineStart"
    /\ pc' = "render"
    /\ UNCHANGED <<KeyFrame, text_buffer, cursor_y, is_all_selected, clipboard, edits>>

\* KeyCode::Right if is_mac_modifier
KeyLineEnd ==
    /\ Running
    /\ \E mods \in ModSets : KeyArm("Right", "", mods) = "LineEnd"
    /\ cursor_x' = EndTarget(text_buffer, cursor_y)
    /\ key' = "LineEnd"
    /\ pc' = "render"
    /\ UNCHANGED <<KeyFrame, text_buffer, cursor_y, is_all_selected, clipboard, edits>>

\* KeyCode::Left
KeyLeft ==
    /\ Running
    /\ \E mods \in ModSets : KeyArm("Left", "", mods) = "Left"
    /\ cursor_x' = LeftTarget(text_buffer, cursor_x, cursor_y)
    /\ key' = "Left"
    /\ pc' = "render"
    /\ UNCHANGED <<KeyFrame, text_buffer, cursor_y, is_all_selected, clipboard, edits>>

\* KeyCode::Right
KeyRight ==
    /\ Running
    /\ \E mods \in ModSets : KeyArm("Right", "", mods) = "Right"
    /\ cursor_x < MaxEditCursor
    /\ cursor_x' = RightTarget(text_buffer, cursor_x, cursor_y)
    /\ key' = "Right"
    /\ pc' = "render"
    /\ UNCHANGED <<KeyFrame, text_buffer, cursor_y, is_all_selected, clipboard, edits>>

\* KeyCode::Home
KeyHome ==
    /\ Running
    /\ \E mods \in ModSets : KeyArm("Home", "", mods) = "Home"
    /\ cursor_x' = 0
    /\ key' = "Home"
    /\ pc' = "render"
    /\ UNCHANGED <<KeyFrame, text_buffer, cursor_y, is_all_selected, clipboard, edits>>

\* KeyCode::End
KeyEnd ==
    /\ Running
    /\ \E mods \in ModSets : KeyArm("End", "", mods) = "End"
    /\ cursor_x' = EndTarget(text_buffer, cursor_y)
    /\ key' = "End"
    /\ pc' = "render"
    /\ UNCHANGED <<KeyFrame, text_buffer, cursor_y, is_all_selected, clipboard, edits>>

\* the clipboard keys of the model
ClipboardChars == {"c", "x", "v"}
\* what the system clipboard may hold at a paste
PasteTexts == {<<>>, <<"a">>, <<"a", "\n", "b">>}

\* KeyCode::Char('c') if is_mac_modifier: copy_selection
KeyCopy ==
    /\ Running
    /\ \E ch \in ClipboardChars, mods \in ModSets : KeyArm("Char", ch, mods) = "Copy"
    /\ clipboard' = CopySelection(text_buffer, is_all_selected, clipboard)
    /\ key' = "Copy"
    /\ pc' = "render"
    /\ UNCHANGED <<KeyFrame, text_buffer, cursor_x, cursor_y, is_all_selected, edits>>

\* KeyCode::Char('x') if is_mac_modifier: cut_selection
KeyCut ==
    /\ Running
    /\ \E ch \in ClipboardChars, mods \in ModSets : KeyArm("Char", ch, mods) = "Cut"
    /\ IF is_all_selected
       THEN /\ clipboard' = CopySelection(text_buffer, is_all_selected, clipboard)
            /\ text_buffer' = <<>>
            /\ cursor_x' = 0
            /\ cursor_y' = 0
            /\ is_all_selected' = FALSE
       ELSE UNCHANGED <<clipboard, text_buffer, cursor_x, cursor_y, is_all_selected>>
    /\ key' = "Cut"
    /\ pc' = "render"
    /\ UNCHANGED <<KeyFrame, edits>>

\* KeyCode::Char('v') if is_mac_modifier: paste_from_clipboard.  The text
\* comes from the system clipboard, or from the internal one if that fails.
KeyPaste ==
    /\ Running
    /\ edits < MaxEdits
    /\ \E ch \in ClipboardChars, mods \in ModSets : KeyArm("Char", ch, mods) = "Paste"
    /\ \E clip \in PasteTexts \cup {clipboard} :
          LET r == PasteFromClipboard(text_buffer, cursor_x, cursor_y, clip)
          IN  /\ text_buffer' = r.text
              /\ cursor_x' = r.cursor_x
              /\ cursor_y' = r.cursor_y
    /\ is_all_selected' = FALSE
    /\ edits' = edits + 1
    /\ key' = "Paste"
    /\ pc' = "render"
    /\ UNCHANGED <<KeyFrame, clipboard>>

\* KeyCode::Esc: clear_selection
KeyEsc ==
    /\ Running
    /\ \E mods \in ModSets : KeyArm("Esc", "", mods) = "Esc"
    /\ is_all_selected' = FALSE
    /\ key' = "Esc"
    /\ pc' = "render"
    /\ UNCHANGED <<KeyFrame, text_buffer, cursor_x, cursor_y, clipboard, edits>>

-----------------------------------------------------------------------------
(* SpecEdit: the editing keys on a text buffer an earlier part of the      *)
(* session left behind                                                     *)

\* text buffers of a running editor: the empty page; "ab", typed or loaded;
\* the text of page P_wide_b; "ab" after Enter at column 1; "ab" after Enter
\* on the row below it
EditTexts ==
    { <<>>,
      <<"a", "b">>,
      <<"W", ZWSP, "b">>,
      <<"a", "\n", "b">>,
      <<"a", "b", "\n", "\n">> }

InitEdit ==
    /\ doc = <<>>
    /\ elements = <<>>
    /\ current_page = 1
    /\ terminal_width = 8
    /\ terminal_height = 5
    /\ text_buffer \in EditTexts
    /\ cursor_x \in 0..MaxEditCursor
    /\ cursor_y \in 0..MaxCursor
    /\ is_all_selected = FALSE
    /\ clipboard = <<>>
    /\ viewport_offset_x = 0
    /\ viewport_offset_y = 0
    /\ content_grid = BlankGrid(0, 0)
    /\ grid_width = 0
    /\ grid_height = 0
    /\ target_macos \in BOOLEAN
    /\ overflow_checks = FALSE
    /\ panicked = "none"
    /\ edits = 0
    /\ block = <<>>
    /\ classification = "none"
    /\ term_mode = "editor"
    /\ session = "unsaved"
    /\ key = "none"
    /\ pc = "running"

NextEdit ==
    \/ Render
    \/ KeyLineStart
    \/ KeyLineEnd
    \/ KeyLeft
    \/ KeyRight
    \/ KeyHome
    \/ KeyEnd
    \/ KeyInsert
    \/ KeyEnter
    \/ KeyBackspace
    \/ KeyCopy
    \/ KeyCut
    \/ KeyPaste
    \/ KeyEsc

SpecEdit == InitEdit /\ [][NextEdit]_vars

\* the line under the cursor as insert_char_at_cursor sees it, padded with
\* empty lines down to row cy and with spaces up to column cx
PaddedLine(text, cx, cy) == PadLine(PadLines(Lines(text), cy)[cy + 1], cx)

\* C22: typing a character c at (x, y) gives a line y that has c at index x,
\* the characters before x as they were (spaces where the line was shorter)
\* and the characters from x on shifted right by one; the cursor becomes
\* (x + 1, y).
C22_TypingInsertsAtCursor ==
    [][key' = "Insert"
         => /\ HasLine(text_buffer', cursor_y)
            /\ \E c \in TypedChars :
                  LineAt(text_buffer', cursor_y)
                      = InsertAt(PaddedLine(text_buffer, cursor_x, cursor_y), cursor_x, c)
            /\ cursor_x' = cursor_x + 1
            /\ cursor_y' = cursor_y]_vars

\* C23: Enter at (x, y), x within line y, leaves the first x characters in
\* line y, puts the rest in a new line y + 1, moves the later lines down and
\* sets the cursor to (0, y + 1).
C23_EnterSplitsLine ==
    [][(key' = "Enter" /\ HasLine(text_buffer, cursor_y)
           /\ cursor_x <= Len(LineAt(text_buffer, cursor_y)))
         => LET lines == Lines(text_buffer)
                line == lines[cursor_y + 1]
            IN  /\ text_buffer' =
                      JoinLines(SubSeq(lines, 1, cursor_y)
                                  \o <<SubSeq(line, 1, cursor_x)>>
                                  \o <<SubSeq(line, cursor_x + 1, Len(line))>>
                                  \o SubSeq(lines, cursor_y + 2, Len(lines)))
                /\ cursor_x' = 0
                /\ cursor_y' = cursor_y + 1]_vars

\* C24: Left without modifiers strictly decreases cursor_x when it is
\* positive, leaves it at 0 otherwise, and never changes cursor_y or the
\* text buffer.
C24_LeftMovesLeft ==
    [][key' = "Left"
         => /\ cursor_x > 0 => cursor_x' < cursor_x
            /\ cursor_x = 0 => cursor_x' = 0
            /\ UNCHANGED <<cursor_y, text_buffer>>]_vars

\* position in the text of the first character of line cy (1-based)
LineStart(text, cy) ==
    LET starts == {1} \cup {i + 1 : i \in {j \in DOMAIN text : text[j] = "\n"}}
    IN  CHOOSE p \in starts : Cardinality({q \in starts : q < p}) = cy

\* the text without its element at position p
RemoveAt(text, p) == SubSeq(text, 1, p - 1) \o SubSeq(text, p + 1, Len(text))

\* C25: Backspace with cursor_x > 0 on an existing line y removes the
\* character at index cursor_x - 1 of that line, if there is one, and nothing
\* else of the text, and decrements cursor_x; with cursor_x = 0 it changes
\* neither the text nor the cursor.
C25_BackspaceRemovesOne ==
    [][key' = "Backspace"
         => /\ cursor_y' = cursor_y
            /\ cursor_x = 0 => UNCHANGED <<text_buffer, cursor_x>>
            /\ (cursor_x > 0 /\ HasLine(text_buffer, cursor_y))
                 => /\ cursor_x' = cursor_x - 1
                    /\ text_buffer' =
                         IF cursor_x - 1 < Len(LineAt(text_buffer, cursor_y))
                         THEN RemoveAt(text_buffer,
                                       LineStart(text_buffer, cursor_y) + cursor_x - 1)
                         ELSE text_buffer]_vars

-----------------------------------------------------------------------------
(* Claims about page navigation and scrolling, checked under Spec *)

\* C26: on every build target a Right or Left key with CONTROL reaches the
\* page-navigation arm, no earlier arm taking it; a page change goes one
\* page forward, or one page back from a page above 1, and reloads the page.
C26_PageKeysOnEveryTarget ==
    /\ [](/\ KeyArm("Right", "", {"CONTROL"}) = "NextPage"
          /\ KeyArm("Left", "", {"CONTROL"}) = "PrevPage")
    /\ [][current_page' # current_page
            => /\ \/ current_page' = current_page + 1
                  \/ current_page > 1 /\ current_page' = current_page - 1
               /\ current_page' >= 1
               /\ elements' = ExtractAltoElements(doc, current_page', overflow_checks).elements]_vars

\* C28: once the editor is constructed, the scroll position is within the
\* scroll limits of the current grid.
C28_ScrollWithinLimits ==
    pc # "new"
        => /\ viewport_offset_x <= SaturatingSub(grid_width, ScrollMarginCols)
           /\ viewport_offset_y <= SaturatingSub(grid_height, ScrollMarginRows)

====
